---- MODULE Spec2Model ----
(***************************************************************************)
(* Bunjang -> Shopify gateway: credential issuance, TTL cache with the     *)
(* fallback lookup of BunjangService.getProducts, and the exchange-rate    *)
(* cache of the App Proxy server.                                          *)
(*                                                                         *)
(* Time: `now` counts seconds since the process started; Date.now() is     *)
(* DateNow, in milliseconds since the Unix epoch.                          *)
(* Rates are integers in units of 1e-5 USD per KRW (0.00074 is 74).         *)
(***************************************************************************)
EXTENDS Integers, Sequences, FiniteSets, TLC

\* ---------------------------------------------------------------- bounds
NumQueries == 2       \* inbound getProducts queries of one run
NumProxyQueries == 2  \* inbound /proxy/* queries of one run
MaxIssued == 3        \* direct generateToken / generateBunjangToken calls
MaxCacheOps == 3      \* direct CacheService calls of one run
ClockStep == 60       \* seconds the clock advances in one step
MaxClock == 420       \* seconds after start at which the clock stops
RateClockStep == 1800 \* clock step of the App Proxy server run
MaxRateClock == 3600  \* end of the App Proxy server run
BootEpoch == 3600     \* Date.now()/1000 when the process starts
ShortTTL == 60        \* a per-entry ttl (seconds) given to CacheService.set

\* ----------------------------------------------------- program constants
ProductsTTL == 300    \* config.cache.productsTTL (seconds)
CheckPeriod == 120    \* NodeCache checkperiod (seconds)
RateTTL == 3600000    \* exchangeRateCache.ttl (milliseconds)
FallbackRate == 74    \* exchangeRateCache.rate at start: 0.00074
ExpiresIn == 5        \* jwt.sign expiresIn: '5s'
UpstreamTimeout == 10 \* axios timeout of BunjangService (seconds)

Undefined == "undefined"

Min(a, b) == IF a < b THEN a ELSE b

VARIABLES
  now,               \* seconds since the process started
  nextCheck,         \* when NodeCache's checkperiod timer fires next
  config,            \* config.bunjang: accessKey, secretKey
  cache,             \* NodeCache.data: key -> wrapped value
  lastSet,           \* history: what set() last stored under each key
  getLog,            \* history: the last direct CacheService.get and its result
  cacheOps,          \* number of direct CacheService calls made
  uuidCount,         \* number of UUIDs drawn from the generator
  issued,            \* history: every credential issued, in order
  upstreamCalls,     \* history: every marketplace call sent, in order
  pc, qparams, result,            \* BunjangService.getProducts calls
  exchangeRateCache, \* { rate, timestamp, ttl }
  fetchCount,        \* number of exchange-rate provider calls issued
  ppc, pnow, xr, presp            \* app.get('/proxy/*') handlers

vars == <<now, nextCheck, config, cache, lastSet, getLog, cacheOps, uuidCount,
          issued, upstreamCalls, pc, qparams, result, exchangeRateCache,
          fetchCount, ppc, pnow, xr, presp>>

authVars == <<uuidCount, issued>>
cacheVars == <<cache, lastSet>>
coordVars == <<upstreamCalls, pc, qparams, result>>
proxyVars == <<exchangeRateCache, fetchCount, ppc, pnow, xr, presp>>

\* Date.now(), in milliseconds
DateNow == (BootEpoch + now) * 1000

\* ------------------------------------------------------------ credentials
Methods == {"GET", "POST", "PUT", "DELETE"}
SecretKeys == {Undefined, "c2VjcmV0"}
AccessKeys == {"ak"}

\* Buffer.from(s, 'base64')
Base64Decode(s) == <<"base64-decoded", s>>

\* crypto.createHmac('sha256', key).update(msg).digest(): a keyed hash,
\* taken as collision free
HmacSha256(key, msg) == <<"hmac-sha256", key, msg>>

JwtHeader == [alg |-> "HS256", typ |-> "JWT"]

\* jwt.sign(payload, key, { algorithm: 'HS256', expiresIn: '5s' })
JwtSign(payload, key) ==
  LET p == [f \in DOMAIN payload \cup {"exp"} |->
              IF f = "exp" THEN payload["iat"] + ExpiresIn ELSE payload[f]]
  IN [header |-> JwtHeader, payload |-> p,
      signature |-> HmacSha256(key, <<JwtHeader, p>>)]

NoToken == [header |-> JwtHeader, payload |-> [iat |-> 0],
            signature |-> Undefined]

\* a nonce taken from the clock instead of the UUID generator
generateTokenNonceFromClock(method, accessKey, secretKey, iat, uuid) ==
  IF secretKey = Undefined
  THEN [ok |-> FALSE, token |-> NoToken, error |-> "JWT token generation failed"]
  ELSE [ok |-> TRUE,
        token |-> JwtSign([iat |-> iat, accessKey |-> accessKey, nonce |-> iat],
                          Base64Decode(secretKey)),
        error |-> ""]

\* no nonce for GET, as BUNJANG_API_SETUP.md describes the token
generateTokenNonceByMethod(method, accessKey, secretKey, iat, uuid) ==
  IF secretKey = Undefined
  THEN [ok |-> FALSE, token |-> NoToken, error |-> "JWT token generation failed"]
  ELSE [ok |-> TRUE,
        token |-> JwtSign(IF method = "GET"
                          THEN [iat |-> iat, accessKey |-> accessKey]
                          ELSE [iat |-> iat, accessKey |-> accessKey, nonce |-> uuid],
                          Base64Decode(secretKey)),
        error |-> ""]

\* BunjangAuthService.generateToken(method); uuid is the value uuidv4() returns
generateToken(method, accessKey, secretKey, iat, uuid) ==
  IF secretKey = Undefined
  THEN [ok |-> FALSE, token |-> NoToken, error |-> "JWT token generation failed"]
  ELSE [ok |-> TRUE,
        token |-> JwtSign([iat |-> iat, accessKey |-> accessKey, nonce |-> uuid],
                          Base64Decode(secretKey)),
        error |-> ""]

\* a signature computed before the nonce is put into the payload
generateBunjangTokenSignedEarly(accessKey, secretKey, iat, uuid) ==
  IF secretKey = Undefined
  THEN [ok |-> FALSE, token |-> NoToken,
        error |-> "The first argument must be of type string"]
  ELSE LET p == [iat |-> iat, accessKey |-> accessKey, nonce |-> uuid]
       IN [ok |-> TRUE,
           token |-> [header |-> JwtHeader, payload |-> p,
                      signature |-> HmacSha256(Base64Decode(secretKey),
                                               <<JwtHeader,
                                                 [iat |-> iat,
                                                  accessKey |-> accessKey]>>)],
           error |-> ""]

\* generateBunjangToken() of the App Proxy server; uuid is crypto.randomUUID()
generateBunjangToken(accessKey, secretKey, iat, uuid) ==
  IF secretKey = Undefined
  THEN [ok |-> FALSE, token |-> NoToken,
        error |-> "The first argument must be of type string"]
  ELSE LET p == [iat |-> iat, accessKey |-> accessKey, nonce |-> uuid]
       IN [ok |-> TRUE,
           token |-> [header |-> JwtHeader, payload |-> p,
                      signature |-> HmacSha256(Base64Decode(secretKey),
                                               <<JwtHeader, p>>)],
           error |-> ""]

\* BunjangAuthService.verifySetup(): false without a key, else whether a
\* token can be generated
verifySetup(accessKey, secretKey, iat, uuid) ==
  IF accessKey \in {Undefined, ""} \/ secretKey \in {Undefined, ""}
  THEN FALSE
  ELSE generateToken("GET", accessKey, secretKey, iat, uuid).ok

\* Math.floor(Date.now() / 1000)
Iat == DateNow \div 1000

\* BunjangAuthService.getAuthHeader(method) called from outside a request
IssueToken(method) ==
  /\ uuidCount < MaxIssued
  /\ LET r == generateToken(method, config.accessKey, config.secretKey, Iat,
                            uuidCount + 1)
     IN /\ uuidCount' = uuidCount + 1
        /\ issued' = IF r.ok
                     THEN Append(issued, [by |-> "generateToken",
                                          method |-> method, token |-> r.token])
                     ELSE issued
  /\ UNCHANGED <<now, nextCheck, config, cacheVars, getLog, cacheOps,
                 coordVars, proxyVars>>

\* generateBunjangToken() called on its own
IssueBunjangToken ==
  /\ uuidCount < MaxIssued
  /\ LET r == generateBunjangToken(config.accessKey, config.secretKey, Iat,
                                   uuidCount + 1)
     IN /\ uuidCount' = uuidCount + 1
        /\ issued' = IF r.ok
                     THEN Append(issued, [by |-> "generateBunjangToken",
                                          method |-> "GET", token |-> r.token])
                     ELSE issued
  /\ UNCHANGED <<now, nextCheck, config, cacheVars, getLog, cacheOps,
                 coordVars, proxyVars>>

\* ------------------------------------------------------------------ cache
\* params objects, as the property lists JSON.stringify walks in order
ParamSets == { << <<"size", "12">>, <<"sort", "latest">> >>,
               << <<"size", "100">>, <<"sort", "latest">> >> }

\* JSON.stringify(params): the properties in insertion order
JsonStringify(params) == <<"json", params>>

\* `products:${JSON.stringify(params)}`
CacheKey(params) == <<"products:", JsonStringify(params)>>

Keys == {CacheKey(p) : p \in ParamSets}

\* response bodies of the marketplace
UpstreamData == {"d1", "d2"}

\* an optional ttl argument: <<>> when not given, <<seconds>> when given
NoTTL == <<>>
TTLs == {NoTTL, <<ShortTTL>>, <<ProductsTTL>>}

\* no cached body counts as found
NothingTruthy(v) == FALSE

\* if (value): JavaScript truthiness of a cached body
Truthy(v) == v \notin {Undefined, ""}

NoEntry == [present |-> FALSE, v |-> Undefined, t |-> 0]

\* NodeCache._wrap: the expiry time of a value stored now
Livetime(ttl) ==
  IF ttl = <<0>> THEN 0
  ELSE IF ttl # NoTTL THEN DateNow + ttl[1] * 1000
  ELSE IF ProductsTTL = 0 THEN 0
  ELSE DateNow + ProductsTTL * 1000

\* NodeCache._check: data.t !== 0 && data.t < Date.now()
Expired(e) == e.t # 0 /\ e.t < DateNow

\* an entry never expires
CacheServiceGetNoExpiry(data, key) ==
  [value |-> IF data[key].present THEN data[key].v ELSE Undefined,
   data |-> data]

\* CacheService.get(key) on NodeCache with deleteOnExpire: the value or
\* undefined, and the store afterwards (an expired entry is deleted)
CacheServiceGet(data, key) ==
  IF data[key].present /\ ~Expired(data[key])
  THEN [value |-> data[key].v, data |-> data]
  ELSE [value |-> Undefined,
        data |-> [data EXCEPT ![key] = NoEntry]]

\* an entry that exists keeps its expiry when its value is replaced
CacheServiceSetKeepingExpiry(data, key, value, ttl) ==
  [data EXCEPT ![key] = [present |-> TRUE, v |-> value,
                         t |-> IF data[key].present THEN data[key].t
                               ELSE Livetime(ttl)]]

\* CacheService.set(key, value, ttl): the store afterwards
CacheServiceSet(data, key, value, ttl) ==
  [data EXCEPT ![key] = [present |-> TRUE, v |-> value, t |-> Livetime(ttl)]]

\* NodeCache.get / NodeCache.set throw inside CacheService: nothing catches
CacheServiceGetUnguarded(data, key, fault) ==
  IF fault
  THEN [threw |-> TRUE, value |-> Undefined, data |-> data]
  ELSE [threw |-> FALSE, value |-> CacheServiceGet(data, key).value,
        data |-> CacheServiceGet(data, key).data]

\* CacheService.get(key) when NodeCache.get may throw (fault): the catch
\* logs and returns undefined
CacheServiceGetOnStore(data, key, fault) ==
  IF fault
  THEN [threw |-> FALSE, value |-> Undefined, data |-> data]
  ELSE [threw |-> FALSE, value |-> CacheServiceGet(data, key).value,
        data |-> CacheServiceGet(data, key).data]

\* CacheService.set(key, value, ttl) when NodeCache.set may throw (fault): the
\* catch logs and returns false
CacheServiceSetOnStore(data, key, value, ttl, fault) ==
  IF fault
  THEN [threw |-> FALSE, ok |-> FALSE, data |-> data]
  ELSE [threw |-> FALSE, ok |-> TRUE,
        data |-> CacheServiceSet(data, key, value, ttl)]

\* CacheService.del(key)
CacheServiceDel(data, key) == [data EXCEPT ![key] = NoEntry]

\* CacheService.flush()
CacheServiceFlush(data) == [k \in DOMAIN data |-> NoEntry]

\* NodeCache._checkData: the checkperiod timer deletes what has expired
CheckData(data) ==
  [k \in DOMAIN data |->
     IF data[k].present /\ Expired(data[k]) THEN NoEntry ELSE data[k]]

\* history of set(): value, time and ttl of the last set under a key, and
\* whether a checkperiod sweep has run since it expired
NeverSet == [set |-> FALSE, v |-> Undefined, at |-> 0, ttl |-> 0, swept |-> FALSE]
RecordSet(h, key, value, ttl) ==
  [h EXCEPT ![key] = [set |-> TRUE, v |-> value, at |-> DateNow,
                      ttl |-> IF ttl = NoTTL THEN ProductsTTL ELSE ttl[1],
                      swept |-> FALSE]]
RecordSweep(h) ==
  [k \in DOMAIN h |->
     IF h[k].set /\ h[k].at + h[k].ttl * 1000 < DateNow
     THEN [h[k] EXCEPT !.swept = TRUE] ELSE h[k]]

\* the checkperiod timer is due: Node runs due timers before the callbacks of
\* the poll phase, so no handler below runs while it is
SweepDue == now = nextCheck

\* the clock advances, up to the next firing of the checkperiod timer; a
\* marketplace call is over within UpstreamTimeout, so none spans a longer step
Tick ==
  /\ now < MaxClock
  /\ now < nextCheck
  /\ ClockStep > UpstreamTimeout => \A q \in DOMAIN pc : pc[q] # "UPSTREAM_CALL"
  /\ now' = Min(now + ClockStep, nextCheck)
  /\ UNCHANGED <<nextCheck, config, cacheVars, getLog, cacheOps, authVars,
                 coordVars, proxyVars>>

\* the checkperiod timer of NodeCache fires
Sweep ==
  /\ now = nextCheck
  /\ cache' = CheckData(cache)
  /\ lastSet' = RecordSweep(lastSet)
  /\ nextCheck' = nextCheck + CheckPeriod
  /\ UNCHANGED <<now, config, getLog, cacheOps, authVars, coordVars, proxyVars>>

NoGet == [called |-> FALSE, key |-> CacheKey(CHOOSE p \in ParamSets : TRUE),
          value |-> Undefined, at |-> 0, prior |-> NeverSet]

\* a direct CacheService.get(key)
CacheGet(key) ==
  /\ cacheOps < MaxCacheOps
  /\ ~SweepDue
  /\ LET g == CacheServiceGet(cache, key)
     IN /\ cache' = g.data
        /\ getLog' = [called |-> TRUE, key |-> key, value |-> g.value,
                      at |-> DateNow, prior |-> lastSet[key]]
  /\ cacheOps' = cacheOps + 1
  /\ UNCHANGED <<now, nextCheck, config, lastSet, authVars, coordVars, proxyVars>>

\* a direct CacheService.set(key, value, ttl)
CacheSet(key, value, ttl) ==
  /\ cacheOps < MaxCacheOps
  /\ ~SweepDue
  /\ cache' = CacheServiceSet(cache, key, value, ttl)
  /\ lastSet' = RecordSet(lastSet, key, value, ttl)
  /\ cacheOps' = cacheOps + 1
  /\ UNCHANGED <<now, nextCheck, config, getLog, authVars, coordVars, proxyVars>>

\* a direct CacheService.del(key)
CacheDel(key) ==
  /\ cacheOps < MaxCacheOps
  /\ ~SweepDue
  /\ cache' = CacheServiceDel(cache, key)
  /\ lastSet' = [lastSet EXCEPT ![key] = NeverSet]
  /\ cacheOps' = cacheOps + 1
  /\ UNCHANGED <<now, nextCheck, config, getLog, authVars, coordVars, proxyVars>>

\* a direct CacheService.flush()
CacheFlush ==
  /\ cacheOps < MaxCacheOps
  /\ ~SweepDue
  /\ cache' = CacheServiceFlush(cache)
  /\ lastSet' = [k \in Keys |-> NeverSet]
  /\ cacheOps' = cacheOps + 1
  /\ UNCHANGED <<now, nextCheck, config, getLog, authVars, coordVars, proxyVars>>

\* ------------------------------------------- BunjangService.getProducts
Queries == 1..NumQueries

\* failures of the marketplace call: an HTTP error status or a timeout
UpstreamErrors == {[status |-> 404, message |-> "Request failed with status code 404"],
                   [status |-> 0, message |-> "timeout of 10000ms exceeded"]}
NoError == [status |-> 0, message |-> ""]

\* what NodeCache throws
CacheError == [status |-> 0, message |-> "cache fault"]

NoResult == [value |-> Undefined, error |-> NoError, via |-> "none",
             prior |-> NeverSet, cause |-> "none"]

\* the Authorization header value: `Bearer ${token}`
Bearer(token) == <<"Bearer", token>>

\* one token, generated when the client is created, is attached to every
\* request
RequestInterceptorStaticToken(method, accessKey, secretKey, iat, uuid) ==
  LET r == generateToken(method, accessKey, secretKey, BootEpoch, 0)
  IN [ok |-> r.ok, token |-> r.token, auth |-> Bearer(r.token), error |-> r.error]

\* the request interceptor of BunjangService: a token generated for this
\* request becomes its Authorization header
RequestInterceptor(method, accessKey, secretKey, iat, uuid) ==
  LET r == generateToken(method, accessKey, secretKey, iat, uuid)
  IN [ok |-> r.ok, token |-> r.token, auth |-> Bearer(r.token), error |-> r.error]

\* the catch block of getProducts: the second cache lookup on the store
\* `data`, then the throw; `fault` is whether the store faults in the lookup
Fallback(q, key, data, err, cause, fault) ==
  LET g == CacheServiceGetOnStore(data, key, fault)
  IN /\ cache' = g.data
     /\ IF g.threw
        THEN /\ pc' = [pc EXCEPT ![q] = "ERROR"]
             /\ result' = [result EXCEPT ![q] =
                  [value |-> Undefined, error |-> CacheError, via |-> "throw",
                   prior |-> lastSet[key], cause |-> "cache"]]
        ELSE IF Truthy(g.value)
        THEN /\ pc' = [pc EXCEPT ![q] = "RETURN"]
             /\ result' = [result EXCEPT ![q] =
                  [value |-> g.value, error |-> NoError, via |-> "fallback",
                   prior |-> lastSet[key], cause |-> cause]]
        ELSE /\ pc' = [pc EXCEPT ![q] = "ERROR"]
             /\ result' = [result EXCEPT ![q] =
                  [value |-> Undefined, error |-> err, via |-> "throw",
                   prior |-> lastSet[key], cause |-> cause]]

\* getProducts(params) up to its await: the cache lookup, and on a miss the
\* request with its interceptor; `fault` is whether the store faults in the
\* lookup
GetProductsStart(q, params, fault) ==
  /\ pc[q] = "START"
  /\ ~SweepDue
  /\ qparams' = [qparams EXCEPT ![q] = params]
  /\ LET key == CacheKey(params)
         g == CacheServiceGetOnStore(cache, key, fault)
         r == RequestInterceptor("GET", config.accessKey, config.secretKey, Iat,
                                 uuidCount + 1)
     IN IF g.threw
        THEN /\ cache' = g.data
             /\ pc' = [pc EXCEPT ![q] = "ERROR"]
             /\ result' = [result EXCEPT ![q] =
                  [value |-> Undefined, error |-> CacheError, via |-> "throw",
                   prior |-> lastSet[key], cause |-> "cache"]]
             /\ UNCHANGED <<authVars, upstreamCalls>>
        ELSE IF Truthy(g.value)
        THEN /\ cache' = g.data
             /\ pc' = [pc EXCEPT ![q] = "RETURN"]
             /\ result' = [result EXCEPT ![q] =
                  [value |-> g.value, error |-> NoError, via |-> "hit",
                   prior |-> lastSet[key], cause |-> "none"]]
             /\ UNCHANGED <<authVars, upstreamCalls>>
        ELSE /\ uuidCount' = uuidCount + 1
             /\ IF r.ok
                THEN /\ cache' = g.data
                     /\ issued' = Append(issued, [by |-> "generateToken",
                                                  method |-> "GET", token |-> r.token])
                     /\ upstreamCalls' = Append(upstreamCalls,
                                                [q |-> q, key |-> key, auth |-> r.auth])
                     /\ pc' = [pc EXCEPT ![q] = "UPSTREAM_CALL"]
                     /\ UNCHANGED result
                ELSE /\ Fallback(q, key, g.data,
                                 [status |-> 0, message |-> r.error], "signing",
                                 fault)
                     /\ UNCHANGED <<issued, upstreamCalls>>
  /\ UNCHANGED <<now, nextCheck, config, lastSet, getLog, cacheOps, proxyVars>>

\* the body is stored under the key of the default params, whatever the
\* params of the query
UpstreamSuccessUnderDefaultKey(q, data, fault) ==
  /\ pc[q] = "UPSTREAM_CALL"
  /\ ~SweepDue
  /\ LET key == CacheKey(<< <<"size", "12">>, <<"sort", "latest">> >>)
         s == CacheServiceSetOnStore(cache, key, data, <<ProductsTTL>>, fault)
     IN IF s.threw
        THEN /\ Fallback(q, key, cache, CacheError, "cache", fault)
             /\ UNCHANGED lastSet
        ELSE /\ cache' = s.data
             /\ lastSet' = IF s.ok
                           THEN RecordSet(lastSet, key, data, <<ProductsTTL>>)
                           ELSE lastSet
             /\ pc' = [pc EXCEPT ![q] = "RETURN"]
             /\ result' = [result EXCEPT ![q] =
                  [value |-> data, error |-> NoError, via |-> "upstream",
                   prior |-> lastSet[key], cause |-> "none"]]
  /\ UNCHANGED <<now, nextCheck, config, getLog, cacheOps, authVars,
                 upstreamCalls, qparams, proxyVars>>

\* the marketplace answers: the body is stored and returned; `fault` is
\* whether the store faults in the set
UpstreamSuccess(q, data, fault) ==
  /\ pc[q] = "UPSTREAM_CALL"
  /\ ~SweepDue
  /\ LET key == CacheKey(qparams[q])
         s == CacheServiceSetOnStore(cache, key, data, <<ProductsTTL>>, fault)
     IN IF s.threw
        THEN /\ Fallback(q, key, cache, CacheError, "cache", fault)
             /\ UNCHANGED lastSet
        ELSE /\ cache' = s.data
             /\ lastSet' = IF s.ok
                           THEN RecordSet(lastSet, key, data, <<ProductsTTL>>)
                           ELSE lastSet
             /\ pc' = [pc EXCEPT ![q] = "RETURN"]
             /\ result' = [result EXCEPT ![q] =
                  [value |-> data, error |-> NoError, via |-> "upstream",
                   prior |-> lastSet[key], cause |-> "none"]]
  /\ UNCHANGED <<now, nextCheck, config, getLog, cacheOps, authVars,
                 upstreamCalls, qparams, proxyVars>>

\* the failure of the marketplace call is noted and the query goes on waiting
UpstreamFailSwallowed(q, err, fault) ==
  /\ pc[q] = "UPSTREAM_CALL"
  /\ ~SweepDue
  /\ result' = [result EXCEPT ![q] = [@ EXCEPT !.error = err, !.cause = "upstream"]]
  /\ UNCHANGED <<now, nextCheck, config, cacheVars, getLog, cacheOps, authVars,
                 upstreamCalls, pc, qparams, proxyVars>>

\* a failed marketplace call is sent again
UpstreamFailRetrying(q, err, fault) ==
  /\ pc[q] = "UPSTREAM_CALL"
  /\ ~SweepDue
  /\ upstreamCalls' = Append(upstreamCalls,
       [q |-> q, key |-> CacheKey(qparams[q]),
        auth |-> upstreamCalls[Len(upstreamCalls)].auth])
  /\ UNCHANGED <<now, nextCheck, config, cacheVars, getLog, cacheOps, authVars,
                 pc, qparams, result, proxyVars>>

\* the marketplace call fails or times out; `fault` is whether the store
\* faults in the fallback lookup
UpstreamFail(q, err, fault) ==
  /\ pc[q] = "UPSTREAM_CALL"
  /\ ~SweepDue
  /\ UNCHANGED qparams
  /\ Fallback(q, CacheKey(qparams[q]), cache, err, "upstream", fault)
  /\ UNCHANGED <<now, nextCheck, config, lastSet, getLog, cacheOps, authVars,
                 upstreamCalls, proxyVars>>

\* router.get('/products') around getProducts: what it answers when
\* getProducts ended in `state` with the thrown `error`
ProductsRoute(state, error) ==
  IF state = "RETURN"
  THEN [status |-> 200, success |-> TRUE, error |-> "", message |-> ""]
  ELSE [status |-> 500, success |-> FALSE,
        error |-> "Failed to fetch products from Bunjang",
        message |-> error.message]

\* router.get('/products') on a body getProducts returned: the products of
\* the body mapped by transformToShopifyFormat, with the pagination
TransformBody(data) ==
  CASE data = "d1" -> "products(d1)"
    [] data = "d2" -> "products(d2)"

\* router.get('/products') from the end of getProducts on: the body is
\* normalized and answered, or the catch answers 500
ProductsRouteRespond(q) ==
  /\ pc[q] \in {"RETURN", "ERROR"}
  /\ pc' = [pc EXCEPT ![q] = "RESPONDED"]
  /\ result' = [result EXCEPT ![q] =
       [@ EXCEPT !.value = IF pc[q] = "RETURN" THEN TransformBody(@) ELSE @]]
  /\ UNCHANGED <<now, nextCheck, config, cacheVars, getLog, cacheOps, authVars,
                 upstreamCalls, qparams, proxyVars>>

\* ------------------------------------------------------ number arithmetic
\* A JavaScript number is an IEEE 754 double. A positive double is written
\* [m, e], the value m * 2^e, with m a natural number of at most MantissaBits
\* bits; zero has m = <<>>. Natural numbers beyond 31 bits are sequences of
\* limbs, least significant first, in base LimbBase.
MantissaBits == 53
LimbBits == 14
LimbBase == 2^LimbBits

Limb(x, i) == IF i \in DOMAIN x THEN x[i] ELSE 0

RECURSIVE BigOfInt(_)
BigOfInt(n) == IF n = 0 THEN <<>> ELSE <<n % LimbBase>> \o BigOfInt(n \div LimbBase)

RECURSIVE IntOfBig(_)
IntOfBig(x) ==
  IF x = <<>> THEN 0 ELSE x[1] + LimbBase * IntOfBig(SubSeq(x, 2, Len(x)))

RECURSIVE Trim(_)
Trim(x) ==
  IF x = <<>> THEN <<>>
  ELSE IF x[Len(x)] = 0 THEN Trim(SubSeq(x, 1, Len(x) - 1)) ELSE x

RECURSIVE ColSum(_, _, _, _)
ColSum(a, b, k, i) ==
  IF i > Len(a) THEN 0 ELSE a[i] * Limb(b, k + 1 - i) + ColSum(a, b, k, i + 1)

RECURSIVE MulCols(_, _, _, _)
MulCols(a, b, k, carry) ==
  IF k > Len(a) + Len(b) THEN <<>>
  ELSE LET c == carry + ColSum(a, b, k, 1)
       IN <<c % LimbBase>> \o MulCols(a, b, k + 1, c \div LimbBase)

\* the product of two natural numbers
BigMul(a, b) == Trim(MulCols(a, b, 1, 0))

RECURSIVE BitLenInt(_)
BitLenInt(v) == IF v = 0 THEN 0 ELSE 1 + BitLenInt(v \div 2)

\* the number of bits of a trimmed natural number
BitLen(x) ==
  IF x = <<>> THEN 0 ELSE (Len(x) - 1) * LimbBits + BitLenInt(x[Len(x)])

\* bit i of x, bit 0 the least significant
BitOf(x, i) == (Limb(x, i \div LimbBits + 1) \div 2^(i % LimbBits)) % 2

\* some bit of x below bit i is set
AnyBitBelow(x, i) ==
  \E j \in DOMAIN x :
    \/ j - 1 < i \div LimbBits /\ x[j] # 0
    \/ j - 1 = i \div LimbBits /\ x[j] % 2^(i % LimbBits) # 0

\* x with its s lowest bits dropped
ShiftRight(x, s) ==
  LET ls == s \div LimbBits
      bs == s % LimbBits
  IN Trim([j \in 1..(IF Len(x) > ls THEN Len(x) - ls ELSE 0) |->
             (Limb(x, j + ls) \div 2^bs)
             + (Limb(x, j + ls + 1) % 2^bs) * 2^(LimbBits - bs)])

RECURSIVE BigInc(_)
BigInc(x) ==
  IF x = <<>> THEN <<1>>
  ELSE IF x[1] + 1 < LimbBase THEN <<x[1] + 1>> \o SubSeq(x, 2, Len(x))
  ELSE <<0>> \o BigInc(SubSeq(x, 2, Len(x)))

\* the double nearest to m * 2^e, ties to the even mantissa
RoundToDouble(m, e) ==
  IF BitLen(m) <= MantissaBits THEN [m |-> m, e |-> e]
  ELSE LET s == BitLen(m) - MantissaBits
           q == ShiftRight(m, s)
           up == BitOf(m, s - 1) = 1 /\ (AnyBitBelow(m, s - 1) \/ BitOf(q, 0) = 1)
           r == IF up THEN BigInc(q) ELSE q
       IN IF BitLen(r) > MantissaBits
          THEN [m |-> ShiftRight(r, 1), e |-> e + s + 1]
          ELSE [m |-> r, e |-> e + s]

\* x * y on doubles
DoubleMul(x, y) == RoundToDouble(BigMul(x.m, y.m), x.e + y.e)

\* an integer as a double
DoubleOfInt(n) == [m |-> BigOfInt(n), e |-> 0]

\* Math.round(x) for x >= 0 below 2^31: the nearest integer, a half rounds up
MathRound(x) ==
  IF x.e >= 0 THEN IntOfBig(x.m) * 2^x.e
  ELSE IntOfBig(ShiftRight(x.m, 0 - x.e)) + BitOf(x.m, 0 - x.e - 1)

\* the literal 1.10: 0x1.199999999999ap+0
Markup == [m |-> <<3277, 13107, 3276, 563>>, e |-> 0 - 51]

\* a rate of r * 1e-5 as the double its decimal is read as:
\* 0.00074 is 0x1.83f91e646f156p-11, 0.00075 is 0x1.89374bc6a7efap-11
DoubleOfRate(r) ==
  IF r = 74 THEN [m |-> <<14507, 3213, 15503, 775>>, e |-> 0 - 62]
  ELSE [m |-> <<16253, 14548, 7077, 786>>, e |-> 0 - 62]

\* ------------------------------------------------- the App Proxy server
ProxyQueries == 1..NumProxyQueries

\* convertPriceToUSD(krwPrice, exchangeRate), in cents: the result is
\* Math.round(priceWithMarkup * 100) hundredths
convertPriceToUSD(krwPrice, exchangeRate) ==
  LET usdPrice == DoubleMul(DoubleOfInt(krwPrice), DoubleOfRate(exchangeRate))
      priceWithMarkup == DoubleMul(usdPrice, Markup)
  IN MathRound(DoubleMul(priceWithMarkup, DoubleOfInt(100)))

\* usdRate read from the provider's response: 0 when the response has no
\* rates.USD and no conversion_rates.USD
NoRate == 0
ProviderRates == {75}

InitialRateCache == [rate |-> FallbackRate, timestamp |-> 0, ttl |-> RateTTL]

\* getExchangeRate, the test before the provider call
RateIsFresh(c, nowMs) == c.rate # NoRate /\ nowMs - c.timestamp < c.ttl

\* a failed provider call is rethrown
GetExchangeRateRethrowing(c, nowMs, outcome) ==
  IF outcome.kind = "ok" /\ outcome.usdRate # NoRate
  THEN [threw |-> FALSE, rate |-> outcome.usdRate, via |-> "fetched",
        cache |-> [rate |-> outcome.usdRate, timestamp |-> nowMs, ttl |-> RateTTL]]
  ELSE IF outcome.kind = "error"
  THEN [threw |-> TRUE, rate |-> NoRate, via |-> "failed", cache |-> c]
  ELSE [threw |-> FALSE, rate |-> c.rate, via |-> "no-rate", cache |-> c]

\* a response without a rate is stored like any other
GetExchangeRateStoringAnything(c, nowMs, outcome) ==
  IF outcome.kind = "ok"
  THEN [threw |-> FALSE, rate |-> outcome.usdRate, via |-> "fetched",
        cache |-> [rate |-> outcome.usdRate, timestamp |-> nowMs, ttl |-> RateTTL]]
  ELSE [threw |-> FALSE, rate |-> c.rate, via |-> "failed", cache |-> c]

\* a failed provider call restarts the hour of the rate held
GetExchangeRateStampingFailures(c, nowMs, outcome) ==
  IF outcome.kind = "ok" /\ outcome.usdRate # NoRate
  THEN [threw |-> FALSE, rate |-> outcome.usdRate, via |-> "fetched",
        cache |-> [rate |-> outcome.usdRate, timestamp |-> nowMs, ttl |-> RateTTL]]
  ELSE [threw |-> FALSE, rate |-> c.rate,
        via |-> IF outcome.kind = "error" THEN "failed" ELSE "no-rate",
        cache |-> [c EXCEPT !.timestamp = nowMs]]

\* getExchangeRate after its await: `c` is exchangeRateCache when the provider
\* call settles, nowMs the Date.now() read before the call, outcome the
\* provider's answer (kind "ok" with usdRate, or kind "error")
GetExchangeRateAfterFetch(c, nowMs, outcome) ==
  IF outcome.kind = "ok" /\ outcome.usdRate # NoRate
  THEN [threw |-> FALSE, rate |-> outcome.usdRate, via |-> "fetched",
        cache |-> [rate |-> outcome.usdRate, timestamp |-> nowMs, ttl |-> RateTTL]]
  ELSE [threw |-> FALSE, rate |-> c.rate,
        via |-> IF outcome.kind = "error" THEN "failed" ELSE "no-rate",
        cache |-> c]

\* the cached rate is never used
GetExchangeRateAlwaysFetching(c, nowMs) == [hit |-> FALSE, rate |-> NoRate]

\* getExchangeRate up to its await: the cached rate while it is valid
GetExchangeRateBeforeFetch(c, nowMs) ==
  IF RateIsFresh(c, nowMs) THEN [hit |-> TRUE, rate |-> c.rate]
  ELSE [hit |-> FALSE, rate |-> NoRate]

\* response bodies of the marketplace seen by the App Proxy server
ProxyData == {"d1"}

NoResponse == [status |-> 0, rate |-> NoRate, rateVia |-> "none",
               cause |-> "none", message |-> "", body |-> Undefined]

\* the handler once getExchangeRate has returned `rate`: callBunjangAPI
\* generates the token and sends the marketplace call
CallBunjangAPI(p, rate, via) ==
  LET r == generateBunjangToken(config.accessKey, config.secretKey, Iat,
                                uuidCount + 1)
  IN /\ uuidCount' = uuidCount + 1
     /\ xr' = [xr EXCEPT ![p] = rate]
     /\ IF r.ok
        THEN /\ issued' = Append(issued, [by |-> "generateBunjangToken",
                                          method |-> "GET", token |-> r.token])
             /\ upstreamCalls' = Append(upstreamCalls,
                  [q |-> p, key |-> <<"/api/v1/products">>, auth |-> Bearer(r.token)])
             /\ ppc' = [ppc EXCEPT ![p] = "CALL_API"]
             /\ presp' = [presp EXCEPT ![p] = [NoResponse EXCEPT !.rateVia = via]]
        ELSE /\ ppc' = [ppc EXCEPT ![p] = "RESPONDED"]
             /\ presp' = [presp EXCEPT ![p] =
                  [status |-> 500, rate |-> NoRate, rateVia |-> via,
                   cause |-> "signing", message |-> r.error, body |-> Undefined]]
             /\ UNCHANGED <<issued, upstreamCalls>>

\* getExchangeRate threw: the handler's catch answers 500
ProxyRateThrew(p) ==
  /\ ppc' = [ppc EXCEPT ![p] = "RESPONDED"]
  /\ presp' = [presp EXCEPT ![p] =
       [status |-> 500, rate |-> NoRate, rateVia |-> "failed",
        cause |-> "rate", message |-> "exchange rate", body |-> Undefined]]
  /\ UNCHANGED <<xr, authVars, upstreamCalls>>

\* GET /proxy/products arrives: getExchangeRate, and with a valid cached rate
\* the marketplace call at once
ProxyStart(p) ==
  /\ ppc[p] = "START"
  /\ LET b == GetExchangeRateBeforeFetch(exchangeRateCache, DateNow)
     IN IF b.hit
        THEN /\ CallBunjangAPI(p, b.rate, "cached")
             /\ UNCHANGED <<pnow, fetchCount>>
        ELSE /\ pnow' = [pnow EXCEPT ![p] = DateNow]
             /\ fetchCount' = fetchCount + 1
             /\ ppc' = [ppc EXCEPT ![p] = "FETCH_RATE"]
             /\ UNCHANGED <<xr, presp, authVars, upstreamCalls>>
  /\ UNCHANGED <<now, nextCheck, config, cacheVars, getLog, cacheOps, pc,
                 qparams, result, exchangeRateCache>>

\* the provider call of p settles with `outcome`
RateSettles(p, outcome) ==
  /\ ppc[p] = "FETCH_RATE"
  /\ LET a == GetExchangeRateAfterFetch(exchangeRateCache, pnow[p], outcome)
     IN /\ exchangeRateCache' = a.cache
        /\ IF a.threw THEN ProxyRateThrew(p) ELSE CallBunjangAPI(p, a.rate, a.via)
  /\ UNCHANGED <<now, nextCheck, config, cacheVars, getLog, cacheOps, pc,
                 qparams, result, pnow, fetchCount>>

\* the provider answers with a usdRate (NoRate: a response without the field)
RateSuccess(p, usdRate) == RateSettles(p, [kind |-> "ok", usdRate |-> usdRate])

\* the provider call fails or times out after 5 s
RateFail(p) == RateSettles(p, [kind |-> "error", usdRate |-> NoRate])

\* raw records of the marketplace: price in KRW, and shippingFee, which a
\* record may lack (<<>>)
RawProducts == [price : {10000, 372500}, shippingFee : {<<>>, <<3000>>}]

\* product.shippingFee || 0
OrZero(amount) == IF amount = <<>> THEN 0 ELSE amount[1]

\* the handler's map over the products: the amounts of one product, USD
\* amounts in cents
TransformProduct(product, exchangeRate) ==
  [price |-> convertPriceToUSD(product.price, exchangeRate),
   priceKRW |-> product.price,
   shippingFee |-> convertPriceToUSD(OrZero(product.shippingFee), exchangeRate),
   shippingFeeKRW |-> product.shippingFee]

\* bunjangData.data of a response body of the marketplace
ProductsOf(data) ==
  CASE data = "d1" -> << [price |-> 10000, shippingFee |-> <<3000>>],
                         [price |-> 372500, shippingFee |-> <<>>] >>

\* the handler's map over the products of a response, for every rate a
\* request can hold and every body, evaluated once
TransformedProducts ==
  [exchangeRate \in {NoRate, FallbackRate} \cup ProviderRates |->
     [data \in ProxyData |->
        [k \in DOMAIN ProductsOf(data) |->
           TransformProduct(ProductsOf(data)[k], exchangeRate)]]]

\* the rate reported is the one the shared cache holds when the answer is sent
ApiSuccessReportingSharedRate(p, data) ==
  /\ ppc[p] = "CALL_API"
  /\ ppc' = [ppc EXCEPT ![p] = "RESPONDED"]
  /\ presp' = [presp EXCEPT ![p] =
       [@ EXCEPT !.status = 200, !.rate = exchangeRateCache.rate,
                 !.body = TransformedProducts[xr[p]][data]]]
  /\ UNCHANGED <<now, nextCheck, config, cacheVars, getLog, cacheOps, authVars,
                 coordVars, exchangeRateCache, fetchCount, pnow, xr>>

\* the marketplace answers the call of p: the products are converted with the
\* rate of this request, and that rate is reported
ApiSuccess(p, data) ==
  /\ ppc[p] = "CALL_API"
  /\ ppc' = [ppc EXCEPT ![p] = "RESPONDED"]
  /\ presp' = [presp EXCEPT ![p] =
       [@ EXCEPT !.status = 200, !.rate = xr[p],
                 !.body = TransformedProducts[xr[p]][data]]]
  /\ UNCHANGED <<now, nextCheck, config, cacheVars, getLog, cacheOps, authVars,
                 coordVars, exchangeRateCache, fetchCount, pnow, xr>>

\* the marketplace call of p fails: the handler's catch answers 500
ApiFail(p, err) ==
  /\ ppc[p] = "CALL_API"
  /\ ppc' = [ppc EXCEPT ![p] = "RESPONDED"]
  /\ presp' = [presp EXCEPT ![p] =
       [@ EXCEPT !.status = 500, !.cause = "upstream", !.message = err.message]]
  /\ UNCHANGED <<now, nextCheck, config, cacheVars, getLog, cacheOps, authVars,
                 coordVars, exchangeRateCache, fetchCount, pnow, xr>>

\* the handler from the answer of the marketplace on, for a request whose
\* getExchangeRate returned exchangeRate and whose call returned `product`
TransformResponse(p, product, exchangeRate) ==
  /\ ppc[p] = "START"
  /\ ppc' = [ppc EXCEPT ![p] = "RESPONDED"]
  /\ xr' = [xr EXCEPT ![p] = exchangeRate]
  /\ presp' = [presp EXCEPT ![p] =
       [status |-> 200, rate |-> exchangeRate, rateVia |-> "cached",
        cause |-> "none", message |-> "",
        body |-> TransformProduct(product, exchangeRate)]]
  /\ UNCHANGED <<now, nextCheck, config, cacheVars, getLog, cacheOps, authVars,
                 coordVars, exchangeRateCache, fetchCount, pnow>>

\* the clock of the App Proxy server advances
RateTick ==
  /\ now < MaxRateClock
  /\ now' = now + RateClockStep
  /\ UNCHANGED <<nextCheck, config, cacheVars, getLog, cacheOps, authVars,
                 coordVars, proxyVars>>

\* ------------------------------------------- the response normalizers
\* A value of a normalized product is a JavaScript value: a number, written
\* in hundredths so that a USD amount of two decimals is an integer, NaN,
\* undefined, a string or an array.
Num(hundredths) == <<"number", hundredths>>
Whole(n) == Num(n * 100)
NaN == <<"NaN">>
JsUndefined == <<"undefined">>
Str(s) == <<"string", s>>

\* a field of a raw record, which the record may lack (<<>>), as a value
FieldNumber(field) == IF field = <<>> THEN JsUndefined ELSE Whole(field[1])

\* field || dflt on a numeric field: undefined and 0 are falsy
OrNumber(field, dflt) ==
  IF field = <<>> \/ field[1] = 0 THEN Whole(dflt) ELSE Whole(field[1])

\* field || '' on a string field
OrEmptyString(field) == IF field = <<>> THEN Str("") ELSE Str(field[1])

RECURSIVE DivLimbs(_, _, _)
\* long division of a natural number by a divisor below LimbBase, from the
\* most significant limb down, entered with the remainder carried in
DivLimbs(x, d, rem) ==
  IF x = <<>> THEN [q |-> <<>>, r |-> rem]
  ELSE LET c == rem * LimbBase + x[Len(x)]
           rest == DivLimbs(SubSeq(x, 1, Len(x) - 1), d, c % d)
       IN [q |-> Append(rest.q, c \div d), r |-> rest.r]

\* n / d on doubles, for natural numbers n below 2^31 and 0 < d < LimbBase:
\* the quotient of n * 2^70 by d, with a sticky bit for the remainder
DoubleDivInt(n, d) ==
  LET qr == DivLimbs(<<0, 0, 0, 0, 0>> \o BigOfInt(n), d, 0)
      twice == BigMul(Trim(qr.q), <<2>>)
  IN RoundToDouble(IF qr.r = 0 THEN twice ELSE BigInc(twice),
                   0 - (5 * LimbBits + 1))

\* USD_EXCHANGE_RATE of BunjangService.convertPriceToUSD
UsdExchangeRate == 1350

\* BunjangService.convertPriceToUSD(krwPrice), in cents; 1 + MARKUP_PERCENT
\* is the double 1.1
BunjangServiceConvertPriceToUSD(krwPrice) ==
  LET usdPrice == DoubleDivInt(krwPrice, UsdExchangeRate)
      priceWithMarkup == DoubleMul(usdPrice, Markup)
  IN MathRound(DoubleMul(priceWithMarkup, DoubleOfInt(100)))

\* convertPriceToUSD(product.price, exchangeRate) on a price the record may
\* lack: undefined * exchangeRate is NaN, and so is all that follows
ConvertField(field, exchangeRate) ==
  IF field = <<>> THEN NaN ELSE Num(convertPriceToUSD(field[1], exchangeRate))

\* this.convertPriceToUSD(bunjangProduct.price): undefined / 1350 is NaN
BunjangServiceConvertField(field) ==
  IF field = <<>> THEN NaN ELSE Num(BunjangServiceConvertPriceToUSD(field[1]))

\* a URL template is a sequence of pieces of text; the piece "{cnt}" is the
\* placeholder
Placeholder == "{cnt}"
Digits == <<"0", "1", "2", "3", "4", "5", "6", "7", "8", "9">>

RECURSIVE StringOfNumber(_)
\* String(n) of a natural number, one piece per digit
StringOfNumber(n) ==
  IF n < 10 THEN <<Digits[n + 1]>>
  ELSE StringOfNumber(n \div 10) \o <<Digits[(n % 10) + 1]>>

RECURSIVE Replace(_, _)
\* template.replace('{cnt}', i): the first placeholder gives way to String(i)
Replace(template, i) ==
  IF template = <<>> THEN <<>>
  ELSE IF Head(template) = Placeholder THEN StringOfNumber(i) \o Tail(template)
  ELSE <<Head(template)>> \o Replace(Tail(template), i)

\* the loop of generateImages counting down from `count`
RECURSIVE ImagesUpTo(_, _)
ImagesUpTo(template, count) ==
  IF count < 1 THEN <<>>
  ELSE Append(ImagesUpTo(template, count - 1), Replace(template, count))

\* generateImages with a loop that stops one short of count
generateImagesOneShort(template, count) ==
  IF template = <<>> \/ template[1] = <<>> \/ count = <<>> \/ count[1] = 0
  THEN <<>>
  ELSE ImagesUpTo(template[1], count[1] - 1)

\* generateImages(template, count) with either argument possibly undefined;
\* undefined, '' and 0 are falsy
generateImages(template, count) ==
  IF template = <<>> \/ template[1] = <<>> \/ count = <<>> \/ count[1] = 0
  THEN <<>>
  ELSE ImagesUpTo(template[1], count[1])

\* raw records of the marketplace; a record may lack (<<>>) any field
ImageTemplate == <<"https://media.bunjang.co.kr/product/1_", Placeholder, "_w.jpg">>
RawRecords ==
  [price : {<<>>, <<0>>, <<10000>>},
   shippingFee : {<<>>, <<0>>, <<3000>>},
   description : {<<>>, <<"mint">>},
   quantity : {<<>>, <<2>>},
   viewCount : {<<>>, <<7>>},
   favoriteCount : {<<>>, <<4>>},
   imageUrlTemplate : {<<>>, <<ImageTemplate>>},
   imageCount : {<<>>, <<0 - 1>>, <<0>>, <<2>>}]

\* the product the App Proxy handler maps a raw record to
ProxyTransform(product, exchangeRate) ==
  [description |-> OrEmptyString(product.description),
   price |-> ConvertField(product.price, exchangeRate),
   priceKRW |-> FieldNumber(product.price),
   shippingFee |-> Num(convertPriceToUSD(OrZero(product.shippingFee),
                                         exchangeRate)),
   shippingFeeKRW |-> FieldNumber(product.shippingFee),
   images |-> generateImages(product.imageUrlTemplate, product.imageCount),
   views |-> OrNumber(product.viewCount, 0),
   likes |-> OrNumber(product.favoriteCount, 0)]

\* BunjangService.transformToShopifyFormat(bunjangProduct)
BunjangServiceTransform(bunjangProduct) ==
  [description |-> OrEmptyString(bunjangProduct.description),
   price |-> BunjangServiceConvertField(bunjangProduct.price),
   priceKRW |-> FieldNumber(bunjangProduct.price),
   shippingFee |-> Num(BunjangServiceConvertPriceToUSD(
                         OrZero(bunjangProduct.shippingFee))),
   shippingFeeKRW |-> FieldNumber(bunjangProduct.shippingFee),
   images |-> generateImages(bunjangProduct.imageUrlTemplate,
                             bunjangProduct.imageCount),
   quantity |-> FieldNumber(bunjangProduct.quantity)]

\* transformToShopifyFormat(bunjangProduct) of the serverless entry point
ServerlessTransform(bunjangProduct) ==
  [description |-> OrEmptyString(bunjangProduct.description),
   price |-> FieldNumber(bunjangProduct.price),
   images |-> generateImages(bunjangProduct.imageUrlTemplate,
                             bunjangProduct.imageCount),
   shippingFee |-> OrNumber(bunjangProduct.shippingFee, 0),
   quantity |-> OrNumber(bunjangProduct.quantity, 1),
   views |-> OrNumber(bunjangProduct.viewCount, 0),
   likes |-> OrNumber(bunjangProduct.favoriteCount, 0)]

\* the entry points that answer product queries
EntryPoints == {"proxy", "service", "serverless"}

\* the product an entry point answers for a raw record
Transform(entry, product, exchangeRate) ==
  CASE entry = "proxy" -> ProxyTransform(product, exchangeRate)
    [] entry = "service" -> BunjangServiceTransform(product)
    [] entry = "serverless" -> ServerlessTransform(product)

\* a products endpoint of `entry` from the answer of the marketplace on, for
\* a request answered with `product` while the exchange-rate cache held
\* exchangeRate
Normalize(p, entry, product, exchangeRate) ==
  /\ ppc[p] = "START"
  /\ ppc' = [ppc EXCEPT ![p] = "RESPONDED"]
  /\ xr' = [xr EXCEPT ![p] = exchangeRate]
  /\ presp' = [presp EXCEPT ![p] =
       [status |-> 200, rate |-> exchangeRate, rateVia |-> "cached",
        cause |-> "none", message |-> "",
        body |-> [entry |-> entry, raw |-> product,
                  product |-> Transform(entry, product, exchangeRate)]]]
  /\ UNCHANGED <<now, nextCheck, config, cacheVars, getLog, cacheOps, authVars,
                 coordVars, exchangeRateCache, fetchCount, pnow>>

\* -------------------------------------------- the products routes, params
\* A string of req.query is a sequence of one-character strings; a
\* property req.query may lack is <<>> when absent and <<string>> when given.
IsDigit(c) == \E i \in DOMAIN Digits : Digits[i] = c
DigitValue(c) == (CHOOSE i \in DOMAIN Digits : Digits[i] = c) - 1

RECURSIVE ParseDigits(_, _)
\* the value of the leading digits of s, after the digits worth acc
ParseDigits(s, acc) ==
  IF s = <<>> \/ ~IsDigit(Head(s)) THEN acc
  ELSE ParseDigits(Tail(s), acc * 10 + DigitValue(Head(s)))

\* parseInt(s): an optional sign and the leading digits; <<>> is NaN
ParseInt(s) ==
  LET negative == s # <<>> /\ Head(s) = "-"
      digits == IF negative THEN Tail(s) ELSE s
  IN IF digits = <<>> \/ ~IsDigit(Head(digits)) THEN <<>>
     ELSE <<(IF negative THEN 0 - 1 ELSE 1) * ParseDigits(digits, 0)>>

\* isNaN(s), on strings of digits, "-" and letters: Number('') is 0, and
\* Number(s) is a number only if s is an optional sign and digits
IsNaN(s) ==
  LET digits == IF s # <<>> /\ Head(s) = "-" THEN Tail(s) ELSE s
  IN s # <<>> /\ (digits = <<>> \/ \E i \in DOMAIN digits : ~IsDigit(digits[i]))

\* the string 'undefined'
UndefinedString == <<"u", "n", "d", "e", "f", "i", "n", "e", "d">>

\* the default of `size = 12` in the destructuring of req.query
DefaultSize == 12
\* the cap of Math.min(parseInt(size), 100)
MaxSize == 100

\* Math.min(parseInt(size), 100) with size defaulting to 12; Math.min of NaN
\* is NaN
SizeParam(size) ==
  LET parsed == IF size = <<>> THEN <<DefaultSize>> ELSE ParseInt(size[1])
  IN IF parsed = <<>> THEN <<>> ELSE <<Min(parsed[1], MaxSize)>>

\* price && price !== 'undefined' && !isNaN(price) ? parseInt(price) : null,
\* null and NaN both written <<>>
ParsedPrice(price) ==
  IF price # <<>> /\ price[1] # <<>> /\ price[1] # UndefinedString
     /\ ~IsNaN(price[1])
  THEN ParseInt(price[1])
  ELSE <<>>

\* ...(parsed && { minPrice: parsed }): the property is left out (<<>>) when
\* parsed is null, NaN or 0
SpreadIfTruthy(parsed) == IF parsed = <<>> \/ parsed[1] = 0 THEN <<>> ELSE parsed

\* the params object the products routes build from req.query
BuildParams(query) ==
  [size |-> SizeParam(query.size),
   sort |-> "latest",
   minPrice |-> SpreadIfTruthy(ParsedPrice(query.minPrice)),
   maxPrice |-> SpreadIfTruthy(ParsedPrice(query.maxPrice))]

\* inbound queries
InboundQueries ==
  [size : {<<>>, << <<"1", "2">> >>, << <<"1", "0", "0">> >>,
           << <<"5", "0", "0">> >>, << <<"0">> >>, << <<"-", "5">> >>,
           << <<"a", "b", "c">> >>},
   minPrice : {<<>>, << <<"0">> >>, << <<"1", "0", "0", "0">> >>,
               << <<"a", "b", "c">> >>, <<UndefinedString>>},
   maxPrice : {<<>>, << <<"0">> >>, << <<"5", "0", "0", "0", "0">> >>,
               <<UndefinedString>>}]

\* the products routes of the router and of the serverless entry point
ProductsRoutes == {"router", "serverless"}

\* a products route up to its call of getProducts: the params are built
BuildParamsStep(q, route, query) ==
  /\ pc[q] = "START"
  /\ pc' = [pc EXCEPT ![q] = "PARAMS"]
  /\ qparams' = [qparams EXCEPT ![q] =
       [route |-> route, query |-> query, params |-> BuildParams(query)]]
  /\ UNCHANGED <<now, nextCheck, config, cacheVars, getLog, cacheOps, authVars,
                 upstreamCalls, result, proxyVars>>

\* ------------------------------------------------------- specifications
\* the state after construction, with a store addressed by the keys of
\* `paramSets`
InitOn(paramSets) ==
  /\ now = 0
  /\ nextCheck = CheckPeriod
  /\ config \in [accessKey : AccessKeys, secretKey : SecretKeys]
  /\ cache = [k \in {CacheKey(p) : p \in paramSets} |-> NoEntry]
  /\ lastSet = [k \in {CacheKey(p) : p \in paramSets} |-> NeverSet]
  /\ getLog = NoGet
  /\ cacheOps = 0
  /\ uuidCount = 0
  /\ issued = <<>>
  /\ upstreamCalls = <<>>
  /\ pc = [q \in Queries |-> "START"]
  /\ qparams = [q \in Queries |-> CHOOSE p \in paramSets : TRUE]
  /\ result = [q \in Queries |-> NoResult]
  /\ exchangeRateCache = InitialRateCache
  /\ fetchCount = 0
  /\ ppc = [p \in ProxyQueries |-> "START"]
  /\ pnow = [p \in ProxyQueries |-> 0]
  /\ xr = [p \in ProxyQueries |-> NoRate]
  /\ presp = [p \in ProxyQueries |-> NoResponse]

Init == InitOn(ParamSets)

\* the Express server with BunjangService.getProducts
Next ==
  \/ \E q \in Queries, params \in ParamSets : GetProductsStart(q, params, FALSE)
  \/ \E q \in Queries, data \in UpstreamData : UpstreamSuccess(q, data, FALSE)
  \/ \E q \in Queries, err \in UpstreamErrors : UpstreamFail(q, err, FALSE)
  \/ Tick
  \/ Sweep

Spec == Init /\ [][Next]_vars

\* the Express server with the products route around getProducts
RouteNext ==
  \/ Next
  \/ \E q \in Queries : ProductsRouteRespond(q)

SpecRoute == Init /\ [][RouteNext]_vars

\* the marketplace call of q settles: axios answers, fails or times out
UpstreamSettles(q) ==
  \/ \E data \in UpstreamData : UpstreamSuccess(q, data, FALSE)
  \/ \E err \in UpstreamErrors : UpstreamFail(q, err, FALSE)

\* the same server, where Express dispatches every request, every marketplace
\* call settles (the axios timeout sees to it) and a due timer fires
SpecLive ==
  /\ Init
  /\ [][Next]_vars
  /\ WF_vars(Sweep)
  /\ WF_vars(\E q \in Queries, params \in ParamSets :
               GetProductsStart(q, params, FALSE))
  /\ WF_vars(\E q \in Queries : UpstreamSettles(q))

\* getProducts called with params objects that hold the same properties,
\* inserted in different orders
OrderParamSets == { << <<"size", "12">>, <<"sort", "latest">> >>,
                    << <<"sort", "latest">>, <<"size", "12">> >> }

OrderNext ==
  \/ \E q \in Queries, params \in OrderParamSets : GetProductsStart(q, params, FALSE)
  \/ \E q \in Queries, data \in UpstreamData : UpstreamSuccess(q, data, FALSE)
  \/ \E q \in Queries, err \in UpstreamErrors : UpstreamFail(q, err, FALSE)
  \/ Tick
  \/ Sweep

SpecOrder == InitOn(OrderParamSets) /\ [][OrderNext]_vars

\* the same server on a store whose get and set may fault, with one response
\* body and one failure of the marketplace
FaultData == {"d1"}
FaultErrors == {[status |-> 0, message |-> "timeout of 10000ms exceeded"]}

FaultNext ==
  \/ \E q \in Queries, params \in ParamSets, fault \in BOOLEAN :
       GetProductsStart(q, params, fault)
  \/ \E q \in Queries, data \in FaultData, fault \in BOOLEAN :
       UpstreamSuccess(q, data, fault)
  \/ \E q \in Queries, err \in FaultErrors, fault \in BOOLEAN :
       UpstreamFail(q, err, fault)
  \/ Tick
  \/ Sweep

SpecFault == Init /\ [][FaultNext]_vars

\* CacheService called directly
CacheNext ==
  \/ \E k \in Keys : CacheGet(k)
  \/ \E k \in Keys, v \in UpstreamData, ttl \in TTLs : CacheSet(k, v, ttl)
  \/ \E k \in Keys : CacheDel(k)
  \/ CacheFlush
  \/ Tick
  \/ Sweep

SpecCache == Init /\ [][CacheNext]_vars

\* the credential issuers called directly
AuthNext ==
  \/ \E m \in Methods : IssueToken(m)
  \/ IssueBunjangToken
  \/ Tick
  \/ Sweep

SpecAuth == Init /\ [][AuthNext]_vars

\* the App Proxy server
ProxyNext ==
  \/ \E p \in ProxyQueries : ProxyStart(p)
  \/ \E p \in ProxyQueries, r \in ProviderRates \cup {NoRate} : RateSuccess(p, r)
  \/ \E p \in ProxyQueries : RateFail(p)
  \/ \E p \in ProxyQueries, data \in ProxyData : ApiSuccess(p, data)
  \/ \E p \in ProxyQueries, err \in UpstreamErrors : ApiFail(p, err)
  \/ RateTick

SpecProxy == Init /\ [][ProxyNext]_vars

\* the conversion stage of the App Proxy server
ConvertNext ==
  \E p \in ProxyQueries, product \in RawProducts,
     rate \in {FallbackRate} \cup ProviderRates :
    TransformResponse(p, product, rate)

SpecConvert == Init /\ [][ConvertNext]_vars

\* the normalizers of the three entry points, one request at a time
NormalizeNext ==
  \E entry \in EntryPoints, product \in RawRecords,
     rate \in {FallbackRate} \cup ProviderRates :
    Normalize(1, entry, product, rate)

SpecNormalize == Init /\ [][NormalizeNext]_vars

\* the products routes building their params, one request at a time
ParamsNext ==
  \E route \in ProductsRoutes, query \in InboundQueries :
    BuildParamsStep(1, route, query)

SpecParams == Init /\ [][ParamsNext]_vars

\* ------------------------------------------------------------- claims
Rates == {FallbackRate} \cup ProviderRates

\* C1: when the marketplace call of a getProducts query fails and a value
\* stored under its key has been neither overwritten nor swept, the query
\* returns that value; when no value was ever stored under the key, the query
\* ends in an error.
C1_StaleOnUpstreamFailure ==
  \A q \in Queries :
    result[q].cause = "upstream" =>
      /\ (result[q].prior.set /\ ~result[q].prior.swept) =>
           (pc[q] = "RETURN" /\ result[q].value = result[q].prior.v)
      /\ ~result[q].prior.set => pc[q] = "ERROR"

\* C2: at most one exchange-rate provider call is outstanding at any time.
C2_SingleFlightRefresh ==
  Cardinality({p \in ProxyQueries : ppc[p] = "FETCH_RATE"}) <= 1

\* C3: the exchange-rate cache starts with the fallback rate, always holds a
\* rate, and its rate changes only in a step in which a provider call
\* succeeds with a rate.
C3_RateAlwaysDefined ==
  /\ exchangeRateCache.rate = FallbackRate
  /\ [](exchangeRateCache.rate \in Rates)
  /\ [][exchangeRateCache'.rate # exchangeRateCache.rate =>
          \E p \in ProxyQueries :
            /\ ppc[p] = "FETCH_RATE"
            /\ presp'[p].rateVia = "fetched"
            /\ exchangeRateCache'.rate = xr'[p]]_vars

\* C3 witness: a provider call failed or came back without a rate after an
\* earlier one had replaced the fallback rate, and the replaced rate is kept.
C3_Witness ==
  /\ exchangeRateCache.rate # FallbackRate
  /\ \E p \in ProxyQueries :
       /\ presp[p].rateVia \in {"failed", "no-rate"}
       /\ pnow[p] > exchangeRateCache.timestamp

\* C4: a getExchangeRate call made while now - lastUpdated < ttl after a
\* successful refresh returns the stored rate and issues no provider call.
C4_NoFetchWithinTTL ==
  [][\A p \in ProxyQueries :
       ( /\ ppc[p] = "START" /\ ppc'[p] # "START"
         /\ exchangeRateCache.timestamp # 0
         /\ DateNow - exchangeRateCache.timestamp < exchangeRateCache.ttl )
       => (fetchCount' = fetchCount /\ xr'[p] = exchangeRateCache.rate)]_vars

\* C4 witness: one provider call was made, it succeeded, and a later call was
\* answered from the cache.
C4_Witness ==
  /\ fetchCount = 1
  /\ exchangeRateCache.timestamp # 0
  /\ \E p \in ProxyQueries :
       presp[p].rateVia = "cached" /\ xr[p] = exchangeRateCache.rate

GetAge == getLog.at - getLog.prior.at

C7_ExpiredStaysRetrievable ==
  \A k \in Keys :
    (lastSet[k].set /\ ~lastSet[k].swept) =>
      (cache[k].present /\ cache[k].v = lastSet[k].v)

\* C8: every credential issued carries a nonce and a signature different from
\* those of every credential issued before it.
C8_FreshNonceAndSignature ==
  \A i, j \in 1..Len(issued) :
    i < j =>
      /\ issued[i].token.payload.nonce # issued[j].token.payload.nonce
      /\ issued[i].token.signature # issued[j].token.signature

\* C8 witness: two credentials were issued for the same method by the same
\* issuer within one epoch second.
C8_Witness ==
  \E i, j \in 1..Len(issued) :
    /\ i < j
    /\ issued[i].by = issued[j].by
    /\ issued[i].method = issued[j].method
    /\ issued[i].token.payload.iat = issued[j].token.payload.iat

\* C9: every marketplace call sent carries a Bearer credential that was
\* issued, and no two calls carry the same nonce.
C9_OneCredentialPerCall ==
  /\ \A i \in 1..Len(upstreamCalls) :
       /\ upstreamCalls[i].auth[1] = "Bearer"
       /\ \E k \in 1..Len(issued) : issued[k].token = upstreamCalls[i].auth[2]
       /\ "nonce" \in DOMAIN upstreamCalls[i].auth[2].payload
  /\ \A i, j \in 1..Len(upstreamCalls) :
       i < j => upstreamCalls[i].auth[2].payload.nonce
                  # upstreamCalls[j].auth[2].payload.nonce

\* C9 witness: two marketplace calls were sent within one epoch second.
C9_Witness ==
  /\ Len(upstreamCalls) >= 2
  /\ upstreamCalls[1].auth[2].payload.iat = upstreamCalls[2].auth[2].payload.iat

Fresh(k) == cache[k].present /\ (cache[k].t = 0 \/ cache[k].t >= DateNow)

CallsOf(q) == {i \in 1..Len(upstreamCalls) : upstreamCalls[i].q = q}

\* C12: a query sends at most one marketplace call, and a query whose call
\* failed has ended, by the fallback lookup or by the error, with that one
\* call.
C12_OneUpstreamCallPerQuery ==
  \A q \in Queries :
    /\ Cardinality(CallsOf(q)) <= 1
    /\ result[q].cause = "upstream" =>
         /\ pc[q] \in {"RETURN", "ERROR"}
         /\ result[q].via \in {"fallback", "throw"}
         /\ Cardinality(CallsOf(q)) = 1

\* C12 witness: the call of a query failed, and the fallback lookup answered
\* it from what another query had stored meanwhile, with no second call.
C12_Witness ==
  \E q \in Queries :
    /\ result[q].cause = "upstream"
    /\ result[q].via = "fallback"
    /\ Cardinality(CallsOf(q)) = 1
    /\ Len(upstreamCalls) = 2

Terminal == {"RETURN", "ERROR"}

\* C13: every query ends: it reaches RETURN (with a fresh or a fallback
\* value) or ERROR; its outcome is written in the step that ends it, once, and
\* neither the state nor the outcome changes afterwards.
C13_EveryQueryEndsOnce ==
  /\ <>(\A q \in Queries : pc[q] \in Terminal)
  /\ [][\A q \in Queries :
          /\ pc[q] \in Terminal => (pc'[q] = pc[q] /\ result'[q] = result[q])
          /\ result'[q] # result[q] => pc'[q] \in Terminal]_vars
  /\ [](\A q \in Queries :
          /\ pc[q] = "RETURN" => result[q].via \in {"hit", "upstream", "fallback"}
          /\ pc[q] = "ERROR" => (result[q].via = "throw" /\ result[q].error # NoError)
          /\ pc[q] \notin Terminal => result[q] = NoResult)

\* C13 witness: every query has ended, one of them in ERROR after its
\* marketplace call failed.
C13_Witness ==
  /\ \A q \in Queries : pc[q] \in Terminal
  /\ \E q \in Queries : pc[q] = "ERROR" /\ result[q].cause = "upstream"

\* C14: a query whose credential could not be generated ends in ERROR, its
\* error names the signing failure, and the answer it gets differs in status
\* or in error from the answer to a query whose marketplace call failed.
C14_SigningFailureIsDistinct ==
  \A q \in Queries :
    result[q].cause = "signing" =>
      /\ pc[q] = "ERROR"
      /\ result[q].error.message = "JWT token generation failed"
      /\ \A e \in UpstreamErrors :
           LET signing == ProductsRoute(pc[q], result[q].error)
               upstream == ProductsRoute("ERROR", e)
           IN signing.status # upstream.status \/ signing.error # upstream.error

\* C15: while verifySetup fails for the configured keys, no query is taken
\* up: every query is still where it was when the process started.
C15_NoServiceWithoutKeys ==
  ~verifySetup(config.accessKey, config.secretKey, Iat, uuidCount + 1) =>
    \A q \in Queries : pc[q] = "START" /\ result[q] = NoResult

SigningError == [status |-> 0, message |-> "JWT token generation failed"]

\* C16: no query ends on account of the cache: a query that ends in ERROR
\* carries the error of its marketplace call or of the signing; and a query
\* whose lookup does not return the fresh entry under its key, the store
\* having faulted, goes on as after a miss: it sends its marketplace call with
\* a credential, or fails in signing, and the store is left as it was.
C16_CacheFaultIsAMiss ==
  /\ [](\A q \in Queries :
          /\ result[q].cause # "cache"
          /\ pc[q] = "ERROR" =>
               ( /\ result[q].cause \in {"upstream", "signing"}
                 /\ result[q].error \in UpstreamErrors \cup {SigningError} ))
  /\ [][\A q \in Queries :
          ( /\ pc[q] = "START"
            /\ pc'[q] \notin {"START", "RETURN"}
            /\ Fresh(CacheKey(qparams'[q])) ) =>
            ( /\ cache' = cache
              /\ \/ /\ pc'[q] = "UPSTREAM_CALL"
                    /\ Len(issued') = Len(issued) + 1
                    /\ Len(upstreamCalls') = Len(upstreamCalls) + 1
                    /\ upstreamCalls'[Len(upstreamCalls')].q = q
                 \/ /\ pc'[q] = "ERROR"
                    /\ result'[q].cause = "signing" )]_vars

\* C16 witness: a marketplace call was sent at a time when the entry stored
\* earlier under its key was fresh, the lookup having faulted, and the query
\* got its answer from the marketplace.
C16_Witness ==
  \E i \in 1..Len(upstreamCalls) :
    LET c == upstreamCalls[i]
        sent == c.auth[2].payload.iat * 1000
    IN /\ lastSet[c.key].set
       /\ lastSet[c.key].at < sent
       /\ sent <= lastSet[c.key].at + lastSet[c.key].ttl * 1000
       /\ pc[c.q] = "RETURN"
       /\ result[c.q].via = "upstream"

\* C17: from a set(k, v, ttl) until ttl has elapsed, whatever was stored
\* under k before, the store holds v under k with the expiry ttl after that
\* set, where ttl is the one given to set, and the default when none was
\* given; a get made in that time returns v.
C17_SetReplacesValueAndExpiry ==
  /\ \A k \in Keys :
       (lastSet[k].set /\ DateNow <= lastSet[k].at + lastSet[k].ttl * 1000) =>
         cache[k] = [present |-> TRUE, v |-> lastSet[k].v,
                     t |-> lastSet[k].at + lastSet[k].ttl * 1000]
  /\ (getLog.called /\ getLog.prior.set /\ GetAge <= getLog.prior.ttl * 1000) =>
       getLog.value = getLog.prior.v

\* C17 witness: a get found the entry of a first set; the key was then set
\* again, while that entry was still fresh, with another value and a shorter
\* ttl than the default, and the entry now expires before the first one would
\* have.
C17_Witness ==
  /\ getLog.called
  /\ getLog.prior.set
  /\ getLog.value = getLog.prior.v
  /\ LET k == getLog.key
     IN /\ lastSet[k].set
        /\ lastSet[k].at >= getLog.at
        /\ lastSet[k].at < getLog.prior.at + getLog.prior.ttl * 1000
        /\ lastSet[k].v # getLog.prior.v
        /\ lastSet[k].ttl < ProductsTTL
        /\ cache[k].present
        /\ cache[k].v = lastSet[k].v
        /\ cache[k].t = lastSet[k].at + lastSet[k].ttl * 1000
        /\ cache[k].t < getLog.prior.at + getLog.prior.ttl * 1000

\* the grace margin of the sweep, in seconds: any margin shorter than the
\* sweep interval; here the longest such
GraceMargin == CheckPeriod - 1

\* C18: the sweep fires every CheckPeriod seconds, whatever else happens; an
\* entry that is fresh, or that expired less than GraceMargin ago, is still
\* in the store after the sweep, so what the sweep removes has been expired
\* for at least GraceMargin.
C18_SweepKeepsWithinGrace ==
  [][ /\ nextCheck' # nextCheck =>
           (now = nextCheck /\ nextCheck' = nextCheck + CheckPeriod)
      /\ nextCheck' # nextCheck =>
           \A k \in Keys :
             ( /\ cache[k].present
               /\ cache[k].t = 0 \/ DateNow - cache[k].t < GraceMargin * 1000 ) =>
               cache'[k] = cache[k] ]_vars

\* two params objects list the same name/value pairs
SameParams(a, b) == {a[i] : i \in DOMAIN a} = {b[i] : i \in DOMAIN b}

\* the params object a cache key was made of
ParamsOf(k) == k[2][2]

Round2(amount, r) == (amount * r * 11 + 5000) \div 10000

\* C20: in every answer the price is round2(priceKRW * rate * 1.10) and the
\* shipping fee is round2(shippingFeeKRW * rate * 1.10), an absent fee
\* counting as 0; 10000 KRW at 0.00074 gives 8.14.
C20_ConvertedAmounts ==
  /\ convertPriceToUSD(10000, FallbackRate) = 814
  /\ \A p \in ProxyQueries :
       (ppc[p] = "RESPONDED" /\ presp[p].status = 200) =>
         /\ presp[p].body.price = Round2(presp[p].body.priceKRW, presp[p].rate)
         /\ presp[p].body.shippingFee =
              Round2(OrZero(presp[p].body.shippingFeeKRW), presp[p].rate)

\* the request p was answered by a normalizer
Normalized(p) == ppc[p] = "RESPONDED" /\ presp[p].status = 200

\* a raw amount that is 0 or absent
ZeroOrAbsent(field) == field = <<>> \/ field[1] = 0

\* C21: a raw record whose price or shipping fee is 0 or absent yields a
\* converted amount of exactly 0, never undefined or NaN, for the price and
\* for the shipping fee alike.
C21_ZeroOrAbsentYieldsZero ==
  \A p \in ProxyQueries :
    (Normalized(p) /\ presp[p].body.entry \in {"proxy", "service"}) =>
      /\ ZeroOrAbsent(presp[p].body.raw.price) =>
           presp[p].body.product.price = Num(0)
      /\ ZeroOrAbsent(presp[p].body.raw.shippingFee) =>
           presp[p].body.product.shippingFee = Num(0)

\* C22: every products endpoint of every entry point converts the price: no
\* answer carries the unconverted source amount as its price.
C22_PriceIsConverted ==
  \A p \in ProxyQueries :
    (Normalized(p) /\ ~ZeroOrAbsent(presp[p].body.raw.price)) =>
      presp[p].body.product.price # Whole(presp[p].body.raw.price[1])

\* C23: every converted price is computed with the rate the exchange-rate
\* cache held for that query, never with a fixed built-in constant.
C23_PriceUsesCachedRate ==
  \A p \in ProxyQueries :
    ( /\ Normalized(p)
      /\ presp[p].body.entry \in {"proxy", "service"}
      /\ presp[p].body.raw.price # <<>> ) =>
      presp[p].body.product.price =
        Num(convertPriceToUSD(presp[p].body.raw.price[1], presp[p].rate))

\* the URL at position i of a template: the text before the placeholder,
\* the digits of i, the text after the placeholder
UrlAt(template, i) ==
  LET k == CHOOSE k \in DOMAIN template : template[k] = Placeholder
  IN SubSeq(template, 1, k - 1) \o StringOfNumber(i)
       \o SubSeq(template, k + 1, Len(template))

\* C24: the images of a product are exactly count URLs, the i-th being the
\* template with its placeholder replaced by i, for i = 1..count; an absent
\* template or a count of 0 or less gives no image.
C24_ImagesAreCountUrls ==
  \A p \in ProxyQueries :
    Normalized(p) =>
      LET template == presp[p].body.raw.imageUrlTemplate
          count == presp[p].body.raw.imageCount
          images == presp[p].body.product.images
      IN /\ (template = <<>> /\ count # <<>>) => images = <<>>
         /\ (count # <<>> /\ count[1] <= 0) => images = <<>>
         /\ (template # <<>> /\ count # <<>> /\ count[1] > 0) =>
              /\ Len(images) = count[1]
              /\ \A i \in 1..count[1] : images[i] = UrlAt(template[1], i)

\* C24 witness: a record with a template and a count of 2 was answered with
\* two images.
C24_Witness ==
  \E p \in ProxyQueries :
    /\ Normalized(p)
    /\ presp[p].body.raw.imageUrlTemplate # <<>>
    /\ presp[p].body.raw.imageCount = <<2>>
    /\ Len(presp[p].body.product.images) = 2

\* C25: normalizing a record that lacks optional fields yields no undefined
\* field: a missing description becomes the empty string, a missing count
\* (quantity, views, likes, shipping fee) becomes 0.
C25_MissingFieldsGetDefaults ==
  \A p \in ProxyQueries :
    Normalized(p) =>
      LET raw == presp[p].body.raw
          product == presp[p].body.product
          Defaulted(field, name) ==
            (field = <<>> /\ name \in DOMAIN product) => product[name] = Num(0)
      IN /\ \A name \in DOMAIN product \ {"images"} :
              product[name] # JsUndefined
         /\ raw.description = <<>> => product.description = Str("")
         /\ Defaulted(raw.quantity, "quantity")
         /\ Defaulted(raw.viewCount, "views")
         /\ Defaulted(raw.favoriteCount, "likes")
         /\ Defaulted(raw.shippingFee, "shippingFee")

\* the params of request q were built
Built(q) == pc[q] = "PARAMS"

\* C26: the size passed to the marketplace is an integer in [1, 100]: an
\* inbound size above 100 gives 100, and one below 1 (0, negative or not a
\* number) gives a value of at least 1.
C26_SizeWithinBounds ==
  \A q \in Queries :
    Built(q) =>
      LET size == qparams[q].params.size
          inbound == qparams[q].query.size
      IN /\ size # <<>>
         /\ size[1] \in 1..MaxSize
         /\ ( /\ inbound # <<>>
              /\ ParseInt(inbound[1]) # <<>>
              /\ ParseInt(inbound[1])[1] > MaxSize ) => size[1] = MaxSize

\* a string of decimal digits
NumericString(s) == s # <<>> /\ \A i \in DOMAIN s : IsDigit(s[i])

\* C27: minPrice and maxPrice are passed to the marketplace as integers
\* whenever the inbound string is numeric, "0" included, and are left out
\* exactly when the inbound value is missing, not numeric or "undefined".
C27_PriceBoundsPassedWhenNumeric ==
  \A q \in Queries :
    Built(q) =>
      \A name \in {"minPrice", "maxPrice"} :
        LET inbound == qparams[q].query[name]
            passed == qparams[q].params[name]
        IN IF inbound # <<>> /\ NumericString(inbound[1])
           THEN passed = <<ParseDigits(inbound[1], 0)>>
           ELSE passed = <<>>

\* C28: on every endpoint a 404 of the marketplace is answered with status
\* 404, and every other failure of the marketplace with status 500 and the
\* message of the failure.
C28_NotFoundIsDistinct ==
  \A p \in ProxyQueries :
    (ppc[p] = "RESPONDED" /\ presp[p].cause = "upstream") =>
      \E err \in UpstreamErrors :
        /\ presp[p].message = err.message
        /\ presp[p].status = IF err.status = 404 THEN 404 ELSE 500

\* what getProducts hands its caller for query q: the body returned or the
\* error thrown
Received(q) ==
  [state |-> pc[q], value |-> result[q].value, error |-> result[q].error]

\* C29: a query that returns a cached value tells its caller whether the
\* value was fresh or stale: what a query returning from the fallback lookup
\* hands its caller differs from what any query returning from the first
\* lookup or from the marketplace hands its caller.
C29_StaleReturnIsMarked ==
  \A q1, q2 \in Queries :
    ( /\ pc[q1] = "RETURN"
      /\ pc[q2] = "RETURN"
      /\ result[q1].via # "fallback"
      /\ result[q2].via = "fallback" ) => Received(q1) # Received(q2)

\* the bytes a credential carries ahead of its signature: its header and
\* payload segments
SignedBytes(token) == <<token.header, token.payload>>

\* verification of a signature against bytes under the configured secret
Verifies(signature, bytes) ==
  signature = HmacSha256(Base64Decode(config.secretKey), bytes)

\* C30: the signature of every credential issued is the HMAC-SHA256, under
\* the base64-decoded secret, of exactly the header and payload the
\* credential carries: it verifies against its own bytes and against no
\* other bytes.
C30_SignatureCoversCarriedBytes ==
  \A i \in 1..Len(issued) :
    /\ Verifies(issued[i].token.signature, SignedBytes(issued[i].token))
    /\ \A j \in 1..Len(issued) :
         SignedBytes(issued[j].token) # SignedBytes(issued[i].token) =>
           ~Verifies(issued[i].token.signature, SignedBytes(issued[j].token))

\* C30 witness: both issuers have issued a credential, and the signature of
\* the one verifies against its own bytes and not against the other's.
C30_Witness ==
  \E i, j \in 1..Len(issued) :
    /\ issued[i].by = "generateToken"
    /\ issued[j].by = "generateBunjangToken"
    /\ Verifies(issued[i].token.signature, SignedBytes(issued[i].token))
    /\ ~Verifies(issued[i].token.signature, SignedBytes(issued[j].token))

\* the position of the marketplace call of query q among the calls sent
CallIndex(q) == CHOOSE i \in CallsOf(q) : TRUE

\* C31: under any interleaving of two concurrent queries for one key, the
\* entry is never overwritten with a response fetched earlier than the one
\* it replaces: a query that stores its response replaces only responses to
\* calls issued before its own.
C31_NoStaleOverwrite ==
  [][\A q, o \in Queries :
       ( /\ pc[q] = "UPSTREAM_CALL"
         /\ pc'[q] = "RETURN"
         /\ result'[q].via = "upstream"
         /\ o # q
         /\ pc[o] = "RETURN"
         /\ result[o].via = "upstream"
         /\ CacheKey(qparams[o]) = CacheKey(qparams[q])
         /\ cache[CacheKey(qparams[q])].present ) =>
         CallIndex(o) < CallIndex(q)]_vars

\* the normalized results
NormalizedBodies == {TransformBody(data) : data \in UpstreamData}

\* C32: the response of the marketplace is normalized before it is stored:
\* every value held in the cache is a normalized result, and a query answered
\* from a cache hit is answered with the cached value as it is, without
\* another normalization.
C32_NormalizedBeforeStored ==
  /\ \A k \in DOMAIN cache : cache[k].present => cache[k].v \in NormalizedBodies
  /\ \A q \in Queries :
       (pc[q] = "RESPONDED" /\ result[q].via = "hit") =>
         result[q].value = result[q].prior.v

\* C33: the timestamp of the exchange-rate cache never decreases, under any
\* interleaving of concurrent getExchangeRate calls.
C33_TimestampNeverDecreases ==
  [][exchangeRateCache'.timestamp >= exchangeRateCache.timestamp]_vars

\* C34: a provider call that fails, times out or returns no rate leaves the
\* exchange-rate cache as it was: rate, timestamp and ttl are unchanged.
C34_FailedRefreshKeepsCache ==
  [][\A p \in ProxyQueries :
       ( /\ ppc[p] = "FETCH_RATE"
         /\ ppc'[p] # "FETCH_RATE"
         /\ presp'[p].rateVia \in {"failed", "no-rate"} ) =>
         exchangeRateCache' = exchangeRateCache]_vars

\* C34 witness: after a refresh by one request, the provider call of a later
\* request failed or returned no rate, and the cache holds what the refresh
\* stored.
C34_Witness ==
  \E p1, p2 \in ProxyQueries :
    /\ presp[p1].rateVia = "fetched"
    /\ presp[p2].rateVia \in {"failed", "no-rate"}
    /\ pnow[p2] > pnow[p1]
    /\ exchangeRateCache = [rate |-> xr[p1], timestamp |-> pnow[p1],
                            ttl |-> RateTTL]

\* the KRW amounts of the products of the marketplace, 0 for an absent fee
Amounts ==
  UNION {{ProductsOf(data)[k].price, OrZero(ProductsOf(data)[k].shippingFee)} :
           data \in ProxyData, k \in {1, 2}}

\* convertPriceToUSD at every rate and amount, evaluated once
ConvertedAt ==
  [exchangeRate \in Rates |->
     [krwPrice \in Amounts |-> convertPriceToUSD(krwPrice, exchangeRate)]]

\* C35: in one answer of the App Proxy server every product is converted with
\* one rate, the rate the answer reports, which is the rate getExchangeRate
\* returned to the request, whatever the shared cache has come to hold since.
C35_OneRatePerResponse ==
  \A p \in ProxyQueries :
    (ppc[p] = "RESPONDED" /\ presp[p].status = 200) =>
      /\ presp[p].rate = xr[p]
      /\ presp[p].rate \in Rates
      /\ \A k \in DOMAIN presp[p].body :
           /\ presp[p].body[k].price =
                ConvertedAt[presp[p].rate][presp[p].body[k].priceKRW]
           /\ presp[p].body[k].shippingFee =
                ConvertedAt[presp[p].rate][OrZero(presp[p].body[k].shippingFeeKRW)]

\* C35 witness: a request was answered with two products at the rate it had
\* obtained, after another request had refreshed the shared rate to another
\* value.
C35_Witness ==
  \E p \in ProxyQueries :
    /\ ppc[p] = "RESPONDED"
    /\ presp[p].status = 200
    /\ Len(presp[p].body) = 2
    /\ presp[p].rate # exchangeRateCache.rate

\* query q got `value` from the marketplace in answer to a call made with
\* the params of key k
FetchedFor(q, k, value) ==
  /\ result[q].via = "upstream"
  /\ result[q].value = value
  /\ value \in UpstreamData
  /\ CacheKey(qparams[q]) = k
  /\ qparams[q] = ParamsOf(k)
  /\ \E i \in CallsOf(q) : upstreamCalls[i].key = k

\* C36: every value held in the cache under a key is the body of a
\* successful response of the marketplace to a call made with exactly the
\* params of that key, and so is every value returned for the key from the
\* cache: no error and no response for other params is stored or returned.
C36_CachedValuesBelongToTheirKey ==
  /\ \A k \in DOMAIN cache :
       cache[k].present => \E q \in Queries : FetchedFor(q, k, cache[k].v)
  /\ \A q \in Queries :
       result[q].via \in {"hit", "fallback"} =>
         \E o \in Queries \ {q} :
           FetchedFor(o, CacheKey(qparams[q]), result[q].value)

\* C36 witness: both keys hold a value, each fetched by a query of its own.
C36_Witness ==
  /\ \A k \in DOMAIN cache : cache[k].present
  /\ \E q1, q2 \in Queries :
       /\ qparams[q1] # qparams[q2]
       /\ FetchedFor(q1, CacheKey(qparams[q1]), cache[CacheKey(qparams[q1])].v)
       /\ FetchedFor(q2, CacheKey(qparams[q2]), cache[CacheKey(qparams[q2])].v)

\* C37: a query whose marketplace call fails leaves the cache as it was
\* before the query: neither the step in which it misses and sends its call
\* nor the step in which the call fails changes the value or the expiry of
\* any entry, of its own key or of another.
C37_FailedQueryKeepsCache ==
  [][\A q \in Queries :
       ( /\ pc'[q] # pc[q]
         /\ \/ pc'[q] = "UPSTREAM_CALL"
            \/ result'[q].cause = "upstream" ) =>
         cache' = cache]_vars

====
